---- MODULE Spec2Model ----
(***************************************************************************)
(* The Inventory container of src/Inventory.cpp as a state machine.        *)
(*                                                                         *)
(* The object's fields are the variables inventory_grid_, equipped_,       *)
(* weight_ and item_count_.  Two more variables describe what surrounds    *)
(* the object: `deleted` is the heap's record of how often `delete` was    *)
(* applied to each Item the caller allocated, and `ret` is the record of   *)
(* the last call made on the object (which member function, what it        *)
(* returned or threw).                                                     *)
(*                                                                         *)
(* C++ indices are 0-based (size_t); TLA+ sequences are 1-based, so the    *)
(* cell inventory_grid_[row][col] of the code is inventory_grid_[row + 1]  *)
(* [col + 1] here.  Item weights are floats in the code; the model uses    *)
(* small natural numbers, on which float addition is exact.                *)
(***************************************************************************)
EXTENDS Naturals, Sequences, FiniteSets

VARIABLES inventory_grid_, equipped_, weight_, item_count_, deleted, ret

vars == <<inventory_grid_, equipped_, weight_, item_count_, deleted, ret>>

---------------------------------------------------------------------------
(* Bounds of the model. *)

\* a caller-supplied grid has at most MaxRows rows
MaxRows == 2
\* a caller-supplied grid has at most MaxCells cells in all (and so in a row)
MaxCells == 2
\* the caller stores no further item once item_count_ has reached MaxCount
MaxCount == 3

---------------------------------------------------------------------------
(* Items and pointers to items. *)

NONE  == "NONE"
SWORD == "SWORD"

\* the values an Item takes in the model: the default-constructed item, a
\* NONE-type item that carries a weight, and a non-NONE item
DefaultItem == [type_ |-> NONE, weight_ |-> 0]
Items ==
    { DefaultItem, [type_ |-> NONE, weight_ |-> 1], [type_ |-> SWORD, weight_ |-> 2] }

\* the items a caller passes to store: a NONE-type item and a non-NONE item
Pickups == { [type_ |-> NONE, weight_ |-> 1], [type_ |-> SWORD, weight_ |-> 2] }

\* Item* values: nullptr and the items the caller allocated with new
nullptr  == "nullptr"
Pointers == {"a", "b"}

---------------------------------------------------------------------------
(* Grids: std::vector<std::vector<Item>>, rows of independent lengths. *)

RowValues == UNION { [1..n -> Items] : n \in 0..MaxCells }

RECURSIVE CellCount(_)
CellCount(g) == IF g = <<>> THEN 0 ELSE Len(Head(g)) + CellCount(Tail(g))

Grids ==
    { g \in UNION { [1..m -> RowValues] : m \in 0..MaxRows } : CellCount(g) <= MaxCells }

\* the size_t arguments the caller passes: every index of a grid of the
\* model and one past each end
RowArgs == 0..MaxRows
ColArgs == 0..MaxCells

---------------------------------------------------------------------------
(* The record of a call: the member function, how it ended ("ok" for a    *)
(* void function, "true"/"false" for a bool, "out_of_range" for the        *)
(* exception), the Item or Item* passed or returned, and for equip the     *)
(* pointer the call overwrote (discardEquipped keeps that field when it    *)
(* directly follows an equip).                                             *)

NoItem == [type_ |-> "-", weight_ |-> 0]

Call(op, status) ==
    [op |-> op, status |-> status, item |-> NoItem, ptr |-> nullptr,
     replaced |-> nullptr, number |-> 0, items |-> <<>>, aliased |-> FALSE]

---------------------------------------------------------------------------
(* Inventory::Inventory(items, equipped) *)

\* the body of the two loops: a cell adds to the totals iff its type is not NONE
ScanCellAll(acc, cell) ==
    [weight_ |-> acc.weight_ + cell.weight_, item_count_ |-> acc.item_count_ + 1]

ScanCell(acc, cell) ==
    IF cell.type_ # NONE
    THEN [weight_ |-> acc.weight_ + cell.weight_, item_count_ |-> acc.item_count_ + 1]
    ELSE acc

\* for (j = 0; j < items[i].size(); j++), from column j on.  (The second
\* conjunct is true of every size_t; it makes TLC evaluate the totals at each
\* iteration, as the loop does, instead of deferring them to the end.)
RECURSIVE ScanRow(_, _, _)
ScanRow(row, j, acc) ==
    IF j < Len(row) /\ acc.item_count_ >= 0
    THEN ScanRow(row, j + 1, ScanCell(acc, row[j + 1]))
    ELSE acc

\* for (i = 0; i < items.size(); i++), from row i on
RECURSIVE ScanGrid(_, _, _)
ScanGrid(items, i, acc) ==
    IF i < Len(items) /\ acc.item_count_ >= 0
    THEN ScanGrid(items, i + 1, ScanRow(items[i + 1], 0, acc))
    ELSE acc

Constructed(items, equipped) ==
    LET totals == ScanGrid(items, 0, [weight_ |-> 0, item_count_ |-> 0])
    IN  /\ inventory_grid_ = items
        /\ equipped_ = equipped
        /\ weight_ = totals.weight_
        /\ item_count_ = totals.item_count_
        /\ deleted = [p \in Pointers |-> 0]
        /\ ret = Call("Inventory", "ok")

\* the default arguments: a 10x10 grid of default-constructed items, nullptr
DefaultSize == 10
DefaultGrid == [i \in 1..DefaultSize |-> [j \in 1..DefaultSize |-> DefaultItem]]

Init == \E items \in Grids, equipped \in {nullptr, "a"} : Constructed(items, equipped)

\* the grids of the specification that follows the equipped item: one cell or none
EquipGrids == { <<>> } \cup { << <<x>> >> : x \in Items }

InitEquip ==
    \E items \in EquipGrids, equipped \in Pointers \cup {nullptr} : Constructed(items, equipped)

InitDefault == Constructed(DefaultGrid, nullptr)

---------------------------------------------------------------------------
(* getEquipped, equip, discardEquipped *)

GetEquipped ==
    /\ ret' = [Call("getEquipped", "ok") EXCEPT !.ptr = equipped_]
    /\ UNCHANGED <<inventory_grid_, equipped_, weight_, item_count_, deleted>>

\* the heap after delete p: p has been released once more (2 stands for
\* "more than once", which is undefined behaviour)
Delete(p) == [deleted EXCEPT ![p] = IF @ = 0 THEN 1 ELSE 2]

EquipReleasingOld(itemToEquip) ==
    /\ equipped_' = itemToEquip
    /\ deleted' = IF equipped_ # nullptr THEN Delete(equipped_) ELSE deleted
    /\ ret' = [Call("equip", "ok") EXCEPT !.ptr = itemToEquip, !.replaced = equipped_]
    /\ UNCHANGED <<inventory_grid_, weight_, item_count_>>

Equip(itemToEquip) ==
    /\ equipped_' = itemToEquip
    /\ ret' = [Call("equip", "ok") EXCEPT !.ptr = itemToEquip, !.replaced = equipped_]
    /\ UNCHANGED <<inventory_grid_, weight_, item_count_, deleted>>

DiscardEquippedNoReset ==
    /\ IF equipped_ # nullptr
       THEN deleted' = Delete(equipped_)
       ELSE deleted' = deleted
    /\ ret' = [Call("discardEquipped", "ok") EXCEPT
                  !.ptr = equipped_,
                  !.replaced = IF ret.op = "equip" THEN ret.replaced ELSE nullptr]
    /\ UNCHANGED <<inventory_grid_, equipped_, weight_, item_count_>>

DiscardEquipped ==
    /\ IF equipped_ # nullptr
       THEN /\ deleted' = Delete(equipped_)
            /\ equipped_' = nullptr
       ELSE UNCHANGED <<deleted, equipped_>>
    /\ ret' = [Call("discardEquipped", "ok") EXCEPT
                  !.ptr = equipped_,
                  !.replaced = IF ret.op = "equip" THEN ret.replaced ELSE nullptr]
    /\ UNCHANGED <<inventory_grid_, weight_, item_count_>>

\* what a caller may pass to equip: nullptr or one of its items that is still
\* allocated
Equippable(ptrs) == {nullptr} \cup {p \in ptrs : deleted[p] = 0}

---------------------------------------------------------------------------
(* getItems, getWeight, getCount *)

\* the return type is a vector, not a reference to one: the caller gets a copy
GetItemsByReference == [items |-> inventory_grid_, aliased |-> TRUE]

GetItemsResult == [items |-> inventory_grid_, aliased |-> FALSE]

GetItems ==
    /\ ret' = [Call("getItems", "ok") EXCEPT !.items = GetItemsResult.items,
                                             !.aliased = GetItemsResult.aliased]
    /\ UNCHANGED <<inventory_grid_, equipped_, weight_, item_count_, deleted>>

GetWeight ==
    /\ ret' = [Call("getWeight", "ok") EXCEPT !.number = weight_]
    /\ UNCHANGED <<inventory_grid_, equipped_, weight_, item_count_, deleted>>

GetCount ==
    /\ ret' = [Call("getCount", "ok") EXCEPT !.number = item_count_]
    /\ UNCHANGED <<inventory_grid_, equipped_, weight_, item_count_, deleted>>

---------------------------------------------------------------------------
(* at(row, col) *)

\* bounds checks that are off by one: the last column, or the last row, is
\* taken to be out of range
AtOutOfRangeLastCol(row, col) ==
    row >= Len(inventory_grid_) \/ col + 1 >= Len(inventory_grid_[row + 1])

AtOutOfRangeLastRow(row, col) ==
    row + 1 >= Len(inventory_grid_) \/ col >= Len(inventory_grid_[row + 1])

AtOutOfRange(row, col) ==
    row >= Len(inventory_grid_) \/ col >= Len(inventory_grid_[row + 1])

AtValue(row, col) == inventory_grid_[row + 1][col + 1]

At(row, col) ==
    /\ IF AtOutOfRange(row, col)
       THEN ret' = Call("at", "out_of_range")
       ELSE ret' = [Call("at", "ok") EXCEPT !.item = AtValue(row, col)]
    /\ UNCHANGED <<inventory_grid_, equipped_, weight_, item_count_, deleted>>

---------------------------------------------------------------------------
(* store(row, col, pickup): the body is not part of the source at hand; it  *)
(* follows its doc comment and the design: out_of_range as in at, false    *)
(* for an occupied cell, and otherwise the item is written and both        *)
(* totals are updated.                                                     *)

StoreOutOfRange(row, col) ==
    row >= Len(inventory_grid_) \/ col >= Len(inventory_grid_[row + 1])

\* no occupancy check at all
StoreOccupiedNever(row, col) == FALSE

StoreOccupied(row, col) == inventory_grid_[row + 1][col + 1].type_ # NONE

Store(row, col, pickup) ==
    IF StoreOutOfRange(row, col)
    THEN /\ UNCHANGED <<inventory_grid_, equipped_, weight_, item_count_, deleted>>
         /\ ret' = [Call("store", "out_of_range") EXCEPT !.item = pickup]
    ELSE IF StoreOccupied(row, col)
    THEN /\ UNCHANGED <<inventory_grid_, equipped_, weight_, item_count_, deleted>>
         /\ ret' = [Call("store", "false") EXCEPT !.item = pickup]
    ELSE /\ item_count_ < MaxCount
         /\ inventory_grid_' = [inventory_grid_ EXCEPT ![row + 1][col + 1] = pickup]
         /\ weight_' = weight_ + pickup.weight_
         /\ item_count_' = item_count_ + 1
         /\ ret' = [Call("store", "true") EXCEPT !.item = pickup]
         /\ UNCHANGED <<equipped_, deleted>>

---------------------------------------------------------------------------
(* The removal of the item at a slot, the counterpart of store that the    *)
(* design requires: a cell that holds a non-NONE item is reset to the      *)
(* default item and both totals are reduced by what it held.               *)

RemoveAt(row, col) ==
    IF row >= Len(inventory_grid_) \/ col >= Len(inventory_grid_[row + 1])
    THEN /\ ret' = Call("remove", "out_of_range")
         /\ UNCHANGED <<inventory_grid_, equipped_, weight_, item_count_, deleted>>
    ELSE IF inventory_grid_[row + 1][col + 1].type_ = NONE
    THEN /\ ret' = Call("remove", "false")
         /\ UNCHANGED <<inventory_grid_, equipped_, weight_, item_count_, deleted>>
    ELSE /\ inventory_grid_' = [inventory_grid_ EXCEPT ![row + 1][col + 1] = DefaultItem]
         /\ weight_' = weight_ - inventory_grid_[row + 1][col + 1].weight_
         /\ item_count_' = item_count_ - 1
         /\ ret' = [Call("remove", "true") EXCEPT !.item = inventory_grid_[row + 1][col + 1]]
         /\ UNCHANGED <<equipped_, deleted>>

---------------------------------------------------------------------------
(* The caller changes the vector getItems returned to it. *)

\* the changes a caller makes to a vector<vector<Item>> g
Overwritten(g, x) ==
    { [g EXCEPT ![i][j] = x] : i \in {r \in DOMAIN g : g[r] # <<>>}, j \in {1} } \cup
    { [g EXCEPT ![i][Len(g[i])] = x] : i \in {r \in DOMAIN g : g[r] # <<>>} }

Mutations(g) ==
    UNION { Overwritten(g, x) : x \in Items }
    \cup { Append(g, <<>>) }
    \cup { [g EXCEPT ![i] = Append(@, DefaultItem)] : i \in DOMAIN g }
    \cup { [g EXCEPT ![i] = SubSeq(@, 1, Len(@) - 1)] : i \in {r \in DOMAIN g : g[r] # <<>>} }
    \cup (IF g = <<>> THEN {} ELSE { SubSeq(g, 1, Len(g) - 1) })

\* the vector the caller holds is its own copy unless getItems handed out a
\* reference, in which case the caller writes into the container's grid
MutateItems ==
    /\ ret.op = "getItems"
    /\ \E changed \in Mutations(ret.items) \ {ret.items} :
          /\ ret' = [Call("mutateItems", "ok") EXCEPT !.aliased = ret.aliased]
          /\ inventory_grid_' = IF ret.aliased THEN changed ELSE inventory_grid_
    /\ UNCHANGED <<equipped_, weight_, item_count_, deleted>>

---------------------------------------------------------------------------
(* The calls a caller makes, with arguments from the given sets. *)

Calls(rows, cols, ptrs) ==
    \/ \E row \in rows, col \in cols, pickup \in Pickups : Store(row, col, pickup)
    \/ \E row \in rows, col \in cols : RemoveAt(row, col)
    \/ \E row \in rows, col \in cols : At(row, col)
    \/ \E itemToEquip \in Equippable(ptrs) : Equip(itemToEquip)
    \/ DiscardEquipped
    \/ GetEquipped
    \/ GetItems
    \/ GetWeight
    \/ GetCount
    \/ MutateItems

Next == Calls(RowArgs, ColArgs, {"a"})

Spec == Init /\ [][Next]_vars

\* the default-constructed inventory, called at its corners and one past them
DefaultArgs == {0, DefaultSize - 1, DefaultSize}

NextDefault == Calls(DefaultArgs, DefaultArgs, {"a"})

SpecDefault == InitDefault /\ [][NextDefault]_vars

\* the equipped item: both of the caller's items, on a grid of at most one cell
EquipArgs == {0, 1}

NextEquip == Calls(EquipArgs, EquipArgs, Pointers)

SpecEquip == InitEquip /\ [][NextEquip]_vars

---------------------------------------------------------------------------
(* What the properties below are stated with. *)

\* the cells of the grid, as <<row, col>> with the indices of the code
Cells == UNION { { <<i - 1, j - 1>> : j \in DOMAIN inventory_grid_[i] } : i \in DOMAIN inventory_grid_ }

CellAt(c) == inventory_grid_[c[1] + 1][c[2] + 1]

OccupiedCells == { c \in Cells : CellAt(c).type_ # NONE }

RECURSIVE SumOfWeights(_)
SumOfWeights(cs) ==
    IF cs = {} THEN 0
    ELSE LET c == CHOOSE x \in cs : TRUE IN CellAt(c).weight_ + SumOfWeights(cs \ {c})

\* (row, col) is a cell: row is less than the number of rows and col is less
\* than the length of that row
IsCell(row, col) == row < Len(inventory_grid_) /\ col < Len(inventory_grid_[row + 1])

ObjectUnchanged == UNCHANGED <<inventory_grid_, equipped_, weight_, item_count_, deleted>>

Jagged == \E i, j \in DOMAIN inventory_grid_ : Len(inventory_grid_[i]) # Len(inventory_grid_[j])

---------------------------------------------------------------------------
\* C1: in every reachable state weight_ is the sum of the weights of the
\* cells whose type is not NONE and item_count_ is the number of such cells
\* (the equipped item is outside the grid and adds to neither).
C1_TotalsMatchGrid ==
    /\ weight_ = SumOfWeights(OccupiedCells)
    /\ item_count_ = Cardinality(OccupiedCells)

\* C2: store(row, col, x) of a non-NONE item x into a cell that holds a
\* NONE-type item returns true, adds 1 to item_count_ and x.weight_ to
\* weight_, makes at(row, col) return x and leaves every other cell as it was.
\* (A store call records its argument x in ret'.item.)
C2_StoreOnEmpty ==
    [][(ret'.op = "store" /\ ret'.item.type_ # NONE) =>
         \A row \in RowArgs, col \in ColArgs :
            ( /\ IsCell(row, col)
              /\ inventory_grid_[row + 1][col + 1].type_ = NONE
              /\ Store(row, col, ret'.item) )
            => /\ ret'.status = "true"
               /\ item_count_' = item_count_ + 1
               /\ weight_' = weight_ + ret'.item.weight_
               /\ ~AtOutOfRange(row, col)'
               /\ AtValue(row, col)' = ret'.item
               /\ Cells' = Cells
               /\ \A c \in Cells \ {<<row, col>>} : CellAt(c)' = CellAt(c)
      ]_vars

C2_Witness ==
    /\ ret.op = "store" /\ ret.status = "true" /\ ret.item.type_ # NONE
    /\ \E c \in Cells : CellAt(c) = ret.item
    /\ \E c \in Cells : CellAt(c) # ret.item

\* C3: store(row, col, x) into a cell that holds a non-NONE item returns
\* false and leaves the grid, weight_, item_count_ and the equipped item
\* as they were.
C3_StoreOnOccupied ==
    [][ret'.op = "store" =>
         \A row \in RowArgs, col \in ColArgs :
            ( /\ IsCell(row, col)
              /\ inventory_grid_[row + 1][col + 1].type_ # NONE
              /\ Store(row, col, ret'.item) )
            => /\ ret'.status = "false"
               /\ ObjectUnchanged
      ]_vars

C3_Witness ==
    /\ ret.op = "store" /\ ret.status = "false"
    /\ \E c \in OccupiedCells : CellAt(c) # ret.item

\* C4: at(row, col) returns the item stored at (row, col) when (row, col) is
\* a cell of the grid and throws out_of_range otherwise, rows of different
\* lengths included; it changes nothing of the object.
C4_AtBounds ==
    [][ret'.op = "at" =>
         /\ ObjectUnchanged
         /\ \A row \in RowArgs, col \in ColArgs :
               \/ IF row < Len(inventory_grid_) /\ col < Len(inventory_grid_[row + 1])
                  THEN ret'.status = "ok" /\ ret'.item = inventory_grid_[row + 1][col + 1]
                  ELSE ret'.status = "out_of_range"
               \/ ~At(row, col)
      ]_vars

C4_Witness ==
    /\ ret.op = "at" /\ ret.status = "out_of_range"
    /\ Jagged
    /\ OccupiedCells # {}

\* C5: equip and discardEquipped leave weight_, item_count_ and every cell
\* as they were; discardEquipped on an empty equipped slot changes nothing
\* of the object; after discardEquipped the equipped slot is empty.
C5_EquipDiscardFrame ==
    [][ /\ ret'.op \in {"equip", "discardEquipped"}
           => UNCHANGED <<inventory_grid_, weight_, item_count_>>
        /\ (ret'.op = "discardEquipped" /\ equipped_ = nullptr) => ObjectUnchanged
        /\ ret'.op = "discardEquipped" => equipped_' = nullptr
      ]_vars

C5_Witness ==
    /\ ret.op = "discardEquipped" /\ ret.ptr # nullptr /\ ret.replaced # nullptr
    /\ equipped_ = nullptr
    /\ OccupiedCells # {}

\* C6: the inventory constructed with no arguments has 10 rows of 10 cells,
\* all of type NONE, weight_ = 0, item_count_ = 0 and no equipped item.
C6_DefaultConstruction ==
    ret.op = "Inventory"
    => /\ Len(inventory_grid_) = 10
       /\ \A i \in 1..10 : Len(inventory_grid_[i]) = 10
       /\ \A c \in Cells : CellAt(c).type_ = NONE
       /\ weight_ = 0
       /\ item_count_ = 0
       /\ equipped_ = nullptr

C6_Witness == ret.op = "Inventory" /\ Cardinality(Cells) = 100

\* C7: getItems returns a value equal to the grid, and a change the caller
\* makes to the returned value changes neither the grid (so no result of
\* at) nor weight_ nor item_count_.
C7_CopyIsolation ==
    [][ /\ ret'.op = "getItems" => (ret'.items = inventory_grid_ /\ ObjectUnchanged)
        /\ ret'.op = "mutateItems"
           => /\ UNCHANGED <<inventory_grid_, weight_, item_count_>>
              /\ \A row \in RowArgs, col \in ColArgs :
                    /\ AtOutOfRange(row, col)' = AtOutOfRange(row, col)
                    /\ ~AtOutOfRange(row, col) => AtValue(row, col)' = AtValue(row, col)
      ]_vars

C7_Witness == ret.op = "mutateItems" /\ OccupiedCells # {}

\* C8: store checks its indices as at does: where at(row, col) throws
\* out_of_range, store fails (out_of_range or false) and leaves the grid,
\* weight_ and item_count_ as they were; where at(row, col) succeeds, store
\* does not throw out_of_range.
C8_StoreBoundsAsAt ==
    [][ret'.op = "store" =>
         \* the call failed and changed nothing, or it is no call at indices
         \* at which at throws
         /\ \/ /\ ret'.status \in {"out_of_range", "false"}
               /\ UNCHANGED <<inventory_grid_, weight_, item_count_>>
            \/ \A row \in RowArgs, col \in ColArgs :
                  ~AtOutOfRange(row, col) \/ ~Store(row, col, ret'.item)
         \* the call did not throw, or it is no call at indices at which at
         \* succeeds
         /\ \/ ret'.status # "out_of_range"
            \/ \A row \in RowArgs, col \in ColArgs :
                  AtOutOfRange(row, col) \/ ~Store(row, col, ret'.item)
      ]_vars

C8_Witness ==
    /\ ret.op = "store" /\ ret.status = "out_of_range"
    /\ Jagged

\* C9: equip sets the equipped pointer to its argument and releases nothing;
\* an item is released only by discardEquipped, which releases exactly the
\* item equipped at the call: after equip(a); equip(b); discardEquipped()
\* b has been released and a has not.
C9_OnlyDiscardReleases ==
    [][ /\ ret'.op = "equip" => (equipped_' = ret'.ptr /\ deleted' = deleted)
        /\ deleted' # deleted
           => /\ ret'.op = "discardEquipped"
              /\ equipped_ # nullptr
              /\ deleted' = [deleted EXCEPT ![equipped_] = @ + 1]
        /\ (ret'.op = "discardEquipped" /\ equipped_ # nullptr)
           => /\ deleted'[equipped_] = deleted[equipped_] + 1
              /\ (ret'.replaced \notin {nullptr, equipped_}
                    => deleted'[ret'.replaced] = 0)
      ]_vars

C9_Witness ==
    /\ ret.op = "discardEquipped" /\ ret.ptr = "b" /\ ret.replaced = "a"
    /\ deleted["b"] = 1 /\ deleted["a"] = 0

\* C10: with a caller that passes only allocated items, no item is released
\* more than once, the equipped pointer is null or points to an allocated
\* item, and so is what getEquipped returned.
C10_NoDoubleRelease ==
    /\ \A p \in Pointers : deleted[p] <= 1
    /\ equipped_ # nullptr => deleted[equipped_] = 0
    /\ (ret.op = "getEquipped" /\ ret.ptr # nullptr) => deleted[ret.ptr] = 0

C10_Witness ==
    /\ ret.op = "getEquipped" /\ ret.ptr # nullptr
    /\ \E p \in Pointers : deleted[p] = 1

====
